---- MODULE Spec2Model ----
(***************************************************************************)
(* Model of chime_dash/app/pages/sidebar.py: the input schema table        *)
(* _INPUTS, the value coercion Sidebar.get_formated_values and the two     *)
(* callbacks Sidebar.update_parameters and                                 *)
(* Sidebar.get_download_as_pdf_link.                                       *)
(*                                                                         *)
(* Python values are tagged records.  A Python str is a sequence of        *)
(* atoms: raw form strings and every rendered value are split into         *)
(* one-character atoms, field keys and URL literals are single atoms.      *)
(***************************************************************************)
EXTENDS Integers, Sequences, FiniteSets, TLC

VARIABLES
    _INPUTS,       \* the module-level schema table (sidebar.py:29-98)
    input_values,  \* the raw values the form holds: the *input_values of
                   \* every callback invocation until the form changes
    fn,            \* the callback invoked last on these values ("none": none yet)
    inputs_dict,   \* the local inputs_dict of that invocation
    pars,          \* what update_parameters returned (or raised) for these
                   \* values: the "children" of element pars
    download_as_pdf_link  \* what get_download_as_pdf_link returned (or
                   \* raised) for them: the "href" of the link

vars == <<_INPUTS, input_values, fn, inputs_dict, pars, download_as_pdf_link>>

-----------------------------------------------------------------------------
(* Bounds of the model. *)

\* at most this many form fields differ from the default submission
MaxChanged == 2
\* the submission lacks at most this many trailing values
MaxShort == 1
\* the submission carries at most this many surplus values
MaxExtra == 1

-----------------------------------------------------------------------------
(* Python values. *)

PyNone == [t |-> "None"]
PyInt(i) == [t |-> "int", i |-> i]
PyBool(b) == [t |-> "bool", b |-> b]
PyStr(s) == [t |-> "str", s |-> s]
PyList(l) == [t |-> "list", l |-> l]
PyDate(y, m, d) == [t |-> "date", y |-> y, m |-> m, d |-> d]
\* the float num/den produced by true division of two ints
PyFloat(num, den) == [t |-> "float", num |-> num, den |-> den]
\* a dict keeps insertion order: a sequence of items [k |-> key, v |-> value]
PyDict(items) == [t |-> "dict", items |-> items]

KeyError(key) == [t |-> "KeyError", key |-> key]
ValueError(text, data) == [t |-> "ValueError", text |-> text, data |-> data]
TypeError(text) == [t |-> "TypeError", text |-> text]

IsExc(x) == x.t \in {"KeyError", "ValueError", "TypeError"}

\* Python truth value testing (`if value`, `if not dt`)
Truthy(x) ==
    CASE x.t = "None" -> FALSE
      [] x.t = "int" -> x.i # 0
      [] x.t = "bool" -> x.b
      [] x.t = "str" -> x.s # <<>>
      [] x.t = "list" -> x.l # <<>>
      [] x.t = "float" -> x.num # 0
      [] OTHER -> TRUE

\* Python == on the values a form emits (no list holds a number here, so
\* bool/int cross-equality never decides a comparison)
PyEq(a, b) == a = b

\* int / int (true division); any other left operand of `/ 100` a form
\* emits here (None, str) is a TypeError
TrueDiv(x, d) ==
    IF x.t = "int" THEN PyFloat(x.i, d)
    ELSE TypeError("unsupported operand type(s) for /")

-----------------------------------------------------------------------------
(* dict operations *)

HasKey(d, key) == \E i \in 1..Len(d.items) : d.items[i].k = key

GetItem(d, key) ==
    IF HasKey(d, key)
    THEN d.items[CHOOSE i \in 1..Len(d.items) : d.items[i].k = key].v
    ELSE KeyError(key)

\* d[key] = value: an existing key keeps its position
SetItem(d, key, value) ==
    IF HasKey(d, key)
    THEN PyDict([i \in 1..Len(d.items) |->
                 IF d.items[i].k = key THEN [k |-> key, v |-> value]
                 ELSE d.items[i]])
    ELSE PyDict(Append(d.items, [k |-> key, v |-> value]))

\* mutant: a zip that refuses sequences of different lengths
DictZipStrict(keys, values) ==
    IF Len(keys) # Len(values)
    THEN ValueError("zip() arguments differ in length", <<>>)
    ELSE PyDict([i \in 1..Len(keys) |-> [k |-> keys[i], v |-> values[i]]])

\* dict(zip(keys, values)): zip stops at the shorter sequence
DictZip(keys, values) ==
    LET n == IF Len(keys) < Len(values) THEN Len(keys) ELSE Len(values)
    IN  PyDict([i \in 1..n |-> [k |-> keys[i], v |-> values[i]]])

-----------------------------------------------------------------------------
(* datetime.strptime(value, "%Y-%m-%d").date() and str() *)

Digits == <<"0", "1", "2", "3", "4", "5", "6", "7", "8", "9">>

IsDigit(c) == \E i \in 1..Len(Digits) : Digits[i] = c

DigitVal(c) == (CHOOSE i \in 1..Len(Digits) : Digits[i] = c) - 1

\* the atom at position i, "" past the end
At(s, i) == IF i >= 1 /\ i <= Len(s) THEN s[i] ELSE ""

\* %Y is \d\d\d\d
MatchYear(s, p) ==
    IF \A j \in 0..3 : IsDigit(At(s, p + j))
    THEN [ok |-> TRUE,
          val |-> DigitVal(s[p]) * 1000 + DigitVal(s[p + 1]) * 100
                  + DigitVal(s[p + 2]) * 10 + DigitVal(s[p + 3]),
          next |-> p + 4]
    ELSE [ok |-> FALSE, val |-> 0, next |-> p]

\* %m is 1[0-2]|0[1-9]|[1-9]
MatchMonth(s, p) ==
    IF At(s, p) = "1" /\ At(s, p + 1) \in {"0", "1", "2"}
    THEN [ok |-> TRUE, val |-> 10 + DigitVal(s[p + 1]), next |-> p + 2]
    ELSE IF At(s, p) = "0" /\ IsDigit(At(s, p + 1)) /\ At(s, p + 1) # "0"
    THEN [ok |-> TRUE, val |-> DigitVal(s[p + 1]), next |-> p + 2]
    ELSE IF IsDigit(At(s, p)) /\ At(s, p) # "0"
    THEN [ok |-> TRUE, val |-> DigitVal(s[p]), next |-> p + 1]
    ELSE [ok |-> FALSE, val |-> 0, next |-> p]

\* %d is 3[01]|[12]\d|0[1-9]|[1-9]| [1-9]
MatchDay(s, p) ==
    IF At(s, p) = "3" /\ At(s, p + 1) \in {"0", "1"}
    THEN [ok |-> TRUE, val |-> 30 + DigitVal(s[p + 1]), next |-> p + 2]
    ELSE IF At(s, p) \in {"1", "2"} /\ IsDigit(At(s, p + 1))
    THEN [ok |-> TRUE, val |-> DigitVal(s[p]) * 10 + DigitVal(s[p + 1]),
          next |-> p + 2]
    ELSE IF At(s, p) = "0" /\ IsDigit(At(s, p + 1)) /\ At(s, p + 1) # "0"
    THEN [ok |-> TRUE, val |-> DigitVal(s[p + 1]), next |-> p + 2]
    ELSE IF IsDigit(At(s, p)) /\ At(s, p) # "0"
    THEN [ok |-> TRUE, val |-> DigitVal(s[p]), next |-> p + 1]
    ELSE IF At(s, p) = " " /\ IsDigit(At(s, p + 1)) /\ At(s, p + 1) # "0"
    THEN [ok |-> TRUE, val |-> DigitVal(s[p + 1]), next |-> p + 2]
    ELSE [ok |-> FALSE, val |-> 0, next |-> p]

IsLeap(y) == y % 4 = 0 /\ (y % 100 # 0 \/ y % 400 = 0)

DaysInMonth(y, m) ==
    IF m = 2 THEN (IF IsLeap(y) THEN 29 ELSE 28)
    ELSE IF m \in {4, 6, 9, 11} THEN 30 ELSE 31

\* mutant: a parse that swallows the failure and yields None
strptime_or_none(value) ==
    IF value.t = "str" /\ value.s = <<"2", "0", "2", "0", "-", "0", "3", "-", "0", "1">>
    THEN PyDate(2020, 3, 1)
    ELSE IF value.t = "str" /\ value.s = <<"2", "0", "2", "0", "-", "0", "3", "-", "2", "0">>
    THEN PyDate(2020, 3, 20)
    ELSE PyNone

\* datetime.strptime(value, "%Y-%m-%d").date(): a date, or the exception
strptime_date(value) ==
    IF value.t # "str" THEN TypeError("strptime() argument 1 must be str")
    ELSE
    LET s == value.s
        y == MatchYear(s, 1)
        m == MatchMonth(s, y.next + 1)
        d == MatchDay(s, m.next + 1)
    IN  IF ~(y.ok /\ At(s, y.next) = "-" /\ m.ok /\ At(s, m.next) = "-" /\ d.ok)
        THEN ValueError("time data does not match format", s)
        ELSE IF d.next # Len(s) + 1
        THEN ValueError("unconverted data remains", SubSeq(s, d.next, Len(s)))
        ELSE IF y.val < 1
        THEN ValueError("year is out of range", <<>>)
        ELSE IF d.val > DaysInMonth(y.val, m.val)
        THEN ValueError("day is out of range for month", <<>>)
        ELSE PyDate(y.val, m.val, d.val)

RECURSIVE NatChars(_)
NatChars(n) ==
    IF n < 10 THEN <<Digits[n + 1]>>
    ELSE NatChars(n \div 10) \o <<Digits[(n % 10) + 1]>>

RECURSIVE ZeroPad(_, _)
ZeroPad(s, width) == IF Len(s) >= width THEN s ELSE ZeroPad(<<"0">> \o s, width)

\* str(value), as "{key}={val}".format renders val
str(x) ==
    CASE x.t = "int" ->
           IF x.i < 0 THEN <<"-">> \o NatChars(0 - x.i) ELSE NatChars(x.i)
      [] x.t = "bool" ->
           IF x.b THEN <<"T", "r", "u", "e">> ELSE <<"F", "a", "l", "s", "e">>
      [] x.t = "str" -> x.s
      [] x.t = "date" ->
           ZeroPad(NatChars(x.y), 4) \o <<"-">> \o ZeroPad(NatChars(x.m), 2)
           \o <<"-">> \o ZeroPad(NatChars(x.d), 2)
      [] x.t = "None" -> <<"N", "o", "n", "e">>
      [] OTHER -> <<"<", x.t, ">">>

-----------------------------------------------------------------------------
(* The schema table.  An OrderedDict is a sequence of entries, each the    *)
(* key and the fields of its descriptor that bound or classify the value   *)
(* (widget-only fields: step, size, value, initial_visible_month, are      *)
(* left out).  A numeric bound is the rational num/den.                    *)

Rat(num, den) == [num |-> num, den |-> den]

FLOAT_INPUT_MIN == Rat(1, 1000)

DateBounds == [min_date_allowed |-> PyDate(2019, 10, 1),
               max_date_allowed |-> PyDate(2021, 12, 31)]

Header(key) == [key |-> key, type |-> "header"]
Number(key, min) == [key |-> key, type |-> "number", min |-> min]
Percent(key, min) ==
    [key |-> key, type |-> "number", min |-> min, max |-> Rat(100, 1),
     percent |-> TRUE]
DateInput(key) ==
    [key |-> key, type |-> "date",
     min_date_allowed |-> DateBounds.min_date_allowed,
     max_date_allowed |-> DateBounds.max_date_allowed]
Switch(key) == [key |-> key, type |-> "switch"]
Link(key) == [key |-> key, type |-> "link"]

InputsTable == <<
    Header("hospital_parameters"),
    Number("population", Rat(1, 1)),
    Percent("market_share", FLOAT_INPUT_MIN),
    Number("current_hospitalized", Rat(0, 1)),
    Header("spread_parameters"),
    DateInput("date_first_hospitalized"),
    Number("doubling_time", FLOAT_INPUT_MIN),
    Percent("relative_contact_rate", Rat(0, 1)),
    Header("severity_parameters"),
    Percent("hospitalized_rate", Rat(0, 1)),
    Percent("icu_rate", Rat(0, 1)),
    Percent("ventilated_rate", Rat(0, 1)),
    Number("infectious_days", Rat(0, 1)),
    Number("hospitalized_los", Rat(0, 1)),
    Number("icu_los", Rat(0, 1)),
    Number("ventilated_los", Rat(0, 1)),
    Header("display_parameters"),
    Number("n_days", Rat(30, 1)),
    DateInput("current_date"),
    Number("max_y_axis_value", Rat(10, 1)),
    Switch("show_tables"),
    Switch("show_tool_details"),
    Link("download_as_pdf_link") >>

PROPERTY_OUTPUT_MAP(type) ==
    CASE type = "number" -> "value"
      [] type = "date" -> "date"
      [] OTHER -> "value"

DOWNLOAD_AS_PDF_URL == "/download-as-pdf"

-----------------------------------------------------------------------------
(* Sidebar *)

IsInput(entry) == entry.type \notin {"header", "link"}

\* mutant: every key of the table, decorative ones included
all_input_keys == [i \in 1..Len(_INPUTS) |-> _INPUTS[i].key]

get_ordered_input_keys ==
    LET kept == SelectSeq(_INPUTS, IsInput)
    IN  [i \in 1..Len(kept) |-> kept[i].key]

\* Sidebar.__init__: the inputs both callbacks are registered on, one
\* (key, property) per interactive entry; Dash hands a callback one value
\* per element
changed_elements ==
    LET kept == SelectSeq(_INPUTS, IsInput)
    IN  [i \in 1..Len(kept) |->
           [k |-> kept[i].key, v |-> PROPERTY_OUTPUT_MAP(kept[i].type)]]

\* mutant: the truth value of the raw value
SwitchValueTruthy(raw) == PyBool(Truthy(raw))

\* lines 132-134: the boolean a switch's raw value stands for
SwitchValue(raw) == PyBool(PyEq(raw, PyList(<<PyBool(TRUE)>>)))

\* one pass of the loop body of get_formated_values for table entry `entry`
FormatEntry(result, entry) ==
    IF entry.type = "switch"
    THEN IF ~HasKey(result, entry.key) THEN KeyError(entry.key)
         ELSE SetItem(result, entry.key, SwitchValue(GetItem(result, entry.key)))
    ELSE IF entry.type = "date"
    THEN IF ~HasKey(result, entry.key) THEN KeyError(entry.key)
         ELSE LET value == GetItem(result, entry.key)
                  parsed == strptime_date(value)
              IN  IF Truthy(value)
                  THEN IF IsExc(parsed) THEN parsed
                       ELSE SetItem(result, entry.key, parsed)
                  ELSE SetItem(result, entry.key, value)
    ELSE result

RECURSIVE FormatLoop(_, _)
FormatLoop(result, n) ==
    IF IsExc(result) \/ n > Len(_INPUTS) THEN result
    ELSE FormatLoop(FormatEntry(result, _INPUTS[n]), n + 1)

\* the dict the coercion starts from
ZipInputs(values) == DictZip(get_ordered_input_keys, values)

\* mutant: the dict of the previous invocation is coerced again
get_formated_values_cached(values) ==
    FormatLoop(IF inputs_dict.t = "dict" THEN inputs_dict ELSE ZipInputs(values), 1)

get_formated_values(values) == FormatLoop(ZipInputs(values), 1)

\* mutant: the date is passed whatever doubling_time is
SpreadInputsBoth(d) ==
    [dt |-> IF Truthy(GetItem(d, "doubling_time"))
            THEN GetItem(d, "doubling_time") ELSE PyNone,
     dfh |-> GetItem(d, "date_first_hospitalized")]

\* mutant: a falsy doubling_time is passed as it is
SpreadInputsRawDt(d) ==
    [dt |-> GetItem(d, "doubling_time"),
     dfh |-> IF ~Truthy(GetItem(d, "doubling_time"))
             THEN GetItem(d, "date_first_hospitalized") ELSE PyNone]

\* lines 150-151: the spread input that is used
SpreadInputs(d) ==
    LET dt == IF Truthy(GetItem(d, "doubling_time"))
              THEN GetItem(d, "doubling_time") ELSE PyNone
        dfh == IF ~Truthy(dt) THEN GetItem(d, "date_first_hospitalized")
               ELSE PyNone
    IN  [dt |-> dt, dfh |-> dfh]

\* mutant: a horizon below the table's minimum is refused
FieldChecked(d, key) ==
    IF key = "n_days" /\ GetItem(d, key).t = "int" /\ GetItem(d, key).i < 30
    THEN ValueError("n_days is below its minimum", <<>>)
    ELSE GetItem(d, key)

\* inputs_dict[key], passed on as it is
Field(d, key) == GetItem(d, key)

\* mutant: the percent value is passed undivided
FractionOmitted(d, key) == GetItem(d, key)

\* inputs_dict[key] / 100
Fraction(d, key) ==
    IF IsExc(GetItem(d, key)) THEN GetItem(d, key)
    ELSE TrueDiv(GetItem(d, key), 100)

\* penn_chime.parameters.Disposition(rate, days)
Disposition(rate, days) == [t |-> "Disposition", rate |-> rate, days |-> days]

\* penn_chime.parameters.Parameters(**kwargs): the keyword arguments the
\* constructor is called with, kw in the order the call evaluates them
Parameters(kw) ==
    [t |-> "Parameters",
     population |-> kw[1],
     current_hospitalized |-> kw[2],
     date_first_hospitalized |-> kw[3],
     doubling_time |-> kw[4],
     hospitalized |-> Disposition(kw[5], kw[6]),
     icu |-> Disposition(kw[7], kw[8]),
     infectious_days |-> kw[9],
     market_share |-> kw[10],
     n_days |-> kw[11],
     relative_contact_rate |-> kw[12],
     ventilated |-> Disposition(kw[13], kw[14]),
     max_y_axis |-> kw[15]]

\* chime_dash.app.utils.parameters_serializer: an opaque wire form
parameters_serializer(p) == [t |-> "serialized", pars |-> p]

\* lines 152-169: the argument expressions in evaluation order
ParameterArgs(d) ==
    LET spread == SpreadInputs(d)
    IN  << Field(d, "population"),
           Field(d, "current_hospitalized"),
           spread.dfh,
           spread.dt,
           Fraction(d, "hospitalized_rate"), Field(d, "hospitalized_los"),
           Fraction(d, "icu_rate"), Field(d, "icu_los"),
           Field(d, "infectious_days"),
           Fraction(d, "market_share"),
           Field(d, "n_days"),
           Fraction(d, "relative_contact_rate"),
           Fraction(d, "ventilated_rate"), Field(d, "ventilated_los"),
           IF HasKey(d, "max_y_axis_value") THEN GetItem(d, "max_y_axis_value")
           ELSE PyNone >>

update_parameters(values) ==
    LET d == get_formated_values(values)
        kw == ParameterArgs(d)
        raised == {i \in 1..Len(kw) : IsExc(kw[i])}
    IN  IF IsExc(d) THEN d
        ELSE IF raised # {}
        THEN kw[CHOOSE i \in raised : \A j \in raised : i <= j]
        ELSE PyList(<<parameters_serializer(Parameters(kw))>>)

\* mutant: every falsy value is dropped, not only None
LinkKeepsTruthy(key, val) == key \notin {"model", "pars"} /\ Truthy(val)

\* the filter of the comprehension at lines 182-186
LinkKeeps(key, val) == key \notin {"model", "pars"} /\ val # PyNone

\* "{key}={val}".format(key=key, val=val)
LinkItem(key, val) == <<key, "=">> \o str(val)

\* "&".join(parts)
RECURSIVE Join(_)
Join(parts) ==
    IF parts = <<>> THEN <<>>
    ELSE IF Len(parts) = 1 THEN parts[1]
    ELSE parts[1] \o <<"&">> \o Join(Tail(parts))

LinkKept(item) == LinkKeeps(item.k, item.v)

get_download_as_pdf_link(values) ==
    LET d == get_formated_values(values)
        kept == SelectSeq(d.items, LinkKept)
        parts == [i \in 1..Len(kept) |-> LinkItem(kept[i].k, kept[i].v)]
    IN  IF IsExc(d) THEN d
        ELSE PyList(<<PyStr(<<DOWNLOAD_AS_PDF_URL, "?">> \o Join(parts))>>)

-----------------------------------------------------------------------------
(* The form: the raw values a submission may carry. *)

S_2020_03_01 == PyStr(<<"2", "0", "2", "0", "-", "0", "3", "-", "0", "1">>)
S_2020_03_20 == PyStr(<<"2", "0", "2", "0", "-", "0", "3", "-", "2", "0">>)
\* accepted by the %m and %d patterns without zero padding
S_2020_3_1 == PyStr(<<"2", "0", "2", "0", "-", "3", "-", "1">>)
\* before min_date_allowed
S_2019_09_30 == PyStr(<<"2", "0", "1", "9", "-", "0", "9", "-", "3", "0">>)
\* after max_date_allowed
S_2022_01_01 == PyStr(<<"2", "0", "2", "2", "-", "0", "1", "-", "0", "1">>)
\* matches the format, is no calendar date
S_2020_02_30 == PyStr(<<"2", "0", "2", "0", "-", "0", "2", "-", "3", "0">>)
\* does not match the format
S_03_01_2020 == PyStr(<<"0", "3", "/", "0", "1", "/", "2", "0", "2", "0">>)
S_20_03_2020 == PyStr(<<"2", "0", "-", "0", "3", "-", "2", "0", "2", "0">>)

\* a submission every field of which is filled in and within its bounds
DefaultValues == <<
    PyInt(5000), PyInt(15), PyInt(69),
    S_2020_03_01, PyInt(4), PyInt(30),
    PyInt(8), PyInt(3), PyInt(2),
    PyInt(14), PyInt(7), PyInt(9), PyInt(10),
    PyInt(30), S_2020_03_20, PyNone,
    PyList(<<>>), PyList(<<PyBool(TRUE)>>) >>

SwitchShapes ==
    { PyList(<<>>), PyList(<<PyBool(TRUE)>>), PyNone, PyBool(TRUE),
      PyList(<<PyBool(FALSE)>>), PyList(<<PyBool(TRUE), PyBool(TRUE)>>),
      PyList(<<PyStr(<<"o", "n">>)>>) }

\* the other values the form may send for a key
Alternatives(key) ==
    CASE key = "population" -> {PyInt(-1)}
      [] key = "market_share" -> {PyInt(150)}
      [] key = "date_first_hospitalized" ->
           {PyNone, PyStr(<<>>), S_2020_3_1, S_2019_09_30, S_2020_02_30,
            S_03_01_2020}
      [] key = "doubling_time" -> {PyNone, PyInt(0), PyStr(<<>>)}
      [] key = "hospitalized_rate" -> {PyNone}
      [] key = "n_days" -> {PyInt(29)}
      [] key = "current_date" -> {S_2022_01_01, S_20_03_2020}
      [] key = "max_y_axis_value" -> {PyInt(100)}
      [] key = "show_tables" -> SwitchShapes
      [] key = "show_tool_details" -> {PyList(<<>>)}
      [] OTHER -> {}

\* what a surplus position may hold
SurplusValues == {PyList(<<PyBool(TRUE)>>)}

\* how many of the first n values differ from the default submission
Changed(values, n) ==
    Cardinality({i \in 1..Len(values) : i <= n /\ values[i] # DefaultValues[i]})

\* the forms one change away from `values`: one field edited, the last
\* value lost, or a value gained
NextInputs(values) ==
    LET keys == get_ordered_input_keys
        n == Len(keys)
        edits == UNION { { [values EXCEPT ![i] = v] :
                             v \in Alternatives(keys[i]) \cup {DefaultValues[i]} } :
                         i \in {j \in 1..Len(values) : j <= n} }
        shorter == IF Len(values) > 0 /\ n - Len(values) < MaxShort
                   THEN {SubSeq(values, 1, Len(values) - 1)} ELSE {}
        longer == IF Len(values) < n
                  THEN {Append(values, DefaultValues[Len(values) + 1])}
                  ELSE IF Len(values) - n < MaxExtra
                  THEN {Append(values, v) : v \in SurplusValues}
                  ELSE {}
    IN  {iv \in (edits \cup shorter \cup longer) \ {values} :
           Changed(iv, n) <= MaxChanged}

-----------------------------------------------------------------------------
(* The state machine.  A change of the form fires both callbacks on the    *)
(* new values; each callback invocation is one step, in either order and   *)
(* any number of times.                                                    *)

\* no value: the callback has not run on the present form values
Unset == [t |-> "unset"]

Init ==
    /\ _INPUTS = InputsTable
    /\ input_values = DefaultValues
    /\ fn = "none"
    /\ inputs_dict = Unset
    /\ pars = Unset
    /\ download_as_pdf_link = Unset

\* the browser form changes: the outputs computed for the old values are
\* stale
ChangeInput ==
    \E iv \in NextInputs(input_values) :
        /\ input_values' = iv
        /\ fn' = "none"
        /\ inputs_dict' = Unset
        /\ pars' = Unset
        /\ download_as_pdf_link' = Unset
        /\ UNCHANGED _INPUTS

\* the local inputs_dict of a callback: unbound when the coercion raised
LocalDict(d) == IF IsExc(d) THEN Unset ELSE d

UpdateParameters ==
    /\ fn' = "update_parameters"
    /\ inputs_dict' = LocalDict(get_formated_values(input_values))
    /\ pars' = update_parameters(input_values)
    /\ UNCHANGED <<_INPUTS, input_values, download_as_pdf_link>>

GetDownloadAsPdfLink ==
    /\ fn' = "get_download_as_pdf_link"
    /\ inputs_dict' = LocalDict(get_formated_values(input_values))
    /\ download_as_pdf_link' = get_download_as_pdf_link(input_values)
    /\ UNCHANGED <<_INPUTS, input_values, pars>>

Next == ChangeInput \/ UpdateParameters \/ GetDownloadAsPdfLink

Spec == Init /\ [][Next]_vars

-----------------------------------------------------------------------------
(* What the properties are stated in: the submitted values by key, and the *)
(* expected coercion of each value of the form, written out value by       *)
(* value.                                                                  *)

IsInteractive(entry) == entry.type \in {"number", "date", "switch"}

InteractiveEntries == SelectSeq(InputsTable, IsInteractive)

InteractiveKeys == [i \in 1..Len(InteractiveEntries) |-> InteractiveEntries[i].key]

KeyPos(key) == CHOOSE i \in 1..Len(InteractiveKeys) : InteractiveKeys[i] = key

Present(key) == KeyPos(key) <= Len(input_values)

Raw(key) == input_values[KeyPos(key)]

KeysOfType(type) ==
    {InteractiveEntries[i].key : i \in {j \in 1..Len(InteractiveEntries) :
                                          InteractiveEntries[j].type = type}}

EmptyDates == {PyNone, PyStr(<<>>)}

\* the raw date strings of the form that name a calendar date
DateOf(raw) ==
    CASE raw = S_2020_03_01 -> PyDate(2020, 3, 1)
      [] raw = S_2020_3_1 -> PyDate(2020, 3, 1)
      [] raw = S_2020_03_20 -> PyDate(2020, 3, 20)
      [] raw = S_2019_09_30 -> PyDate(2019, 9, 30)
      [] raw = S_2022_01_01 -> PyDate(2022, 1, 1)
      [] OTHER -> raw

\* written as YYYY-MM-DD and a calendar date
WellFormedDates == {S_2020_03_01, S_2020_03_20, S_2019_09_30, S_2022_01_01}

\* non-empty and not parseable as a date
MalformedDates == {S_03_01_2020, S_20_03_2020, S_2020_02_30}

ExpectedValue(type, raw) ==
    CASE type = "date" -> DateOf(raw)
      [] type = "switch" -> PyBool(raw = PyList(<<PyBool(TRUE)>>))
      [] OTHER -> raw

Returned(out) == out.t = "list"

Built == Returned(pars)

\* the keyword arguments Parameters was constructed with
P == pars.l[1].pars

\* the URL returned, as its sequence of atoms
Url == download_as_pdf_link.l[1].s

IsSet(v) == v # PyNone /\ v # PyStr(<<>>)

IsHundredth(v, raw) ==
    v.t = "float" /\ raw.t = "int" /\ v.num * 100 = raw.i * v.den

-----------------------------------------------------------------------------
\* C1: whenever update_parameters builds a Parameters object, a truthy
\* submitted doubling_time is passed as doubling_time with
\* date_first_hospitalized None, whatever date was submitted; a falsy one
\* (0, empty, None) makes it pass the coerced date and doubling_time None.
C1_SpreadChoice ==
    Built =>
        IF Truthy(Raw("doubling_time"))
        THEN /\ P.doubling_time = Raw("doubling_time")
             /\ P.date_first_hospitalized = PyNone
        ELSE /\ P.doubling_time = PyNone
             /\ P.date_first_hospitalized = DateOf(Raw("date_first_hospitalized"))

C1_Witness ==
    /\ Built
    /\ Raw("doubling_time") = PyInt(4)
    /\ Raw("date_first_hospitalized") = S_2020_03_01
    /\ P.doubling_time = PyInt(4)
    /\ P.date_first_hospitalized = PyNone

\* C2 as stated: every Parameters object built gets exactly one of
\* doubling_time and date_first_hospitalized as a set (non-null, non-empty)
\* value.
C2_ExactlyOne ==
    Built => (IsSet(P.doubling_time) /\ ~IsSet(P.date_first_hospitalized))
             \/ (~IsSet(P.doubling_time) /\ IsSet(P.date_first_hospitalized))

\* C2 amended: never both are set; neither is set exactly when the
\* submitted doubling_time is falsy and the submitted date is empty or None.
C2_AtMostOne ==
    Built =>
        /\ ~(IsSet(P.doubling_time) /\ IsSet(P.date_first_hospitalized))
        /\ (~IsSet(P.doubling_time) /\ ~IsSet(P.date_first_hospitalized))
           <=> (~Truthy(Raw("doubling_time"))
                /\ Raw("date_first_hospitalized") \in EmptyDates)

C2_Witness ==
    /\ Built
    /\ Raw("doubling_time") = PyInt(0)
    /\ Raw("date_first_hospitalized") = PyNone
    /\ P.doubling_time = PyNone
    /\ P.date_first_hospitalized = PyNone

\* C3: the five percent fields reach Parameters/Disposition divided by 100
\* once, every other field unscaled, and each Disposition pairs the rate
\* and the length of stay of one cohort.
C3_PercentOnce ==
    Built =>
        /\ IsHundredth(P.market_share, Raw("market_share"))
        /\ IsHundredth(P.relative_contact_rate, Raw("relative_contact_rate"))
        /\ IsHundredth(P.hospitalized.rate, Raw("hospitalized_rate"))
        /\ IsHundredth(P.icu.rate, Raw("icu_rate"))
        /\ IsHundredth(P.ventilated.rate, Raw("ventilated_rate"))
        /\ P.hospitalized.days = Raw("hospitalized_los")
        /\ P.icu.days = Raw("icu_los")
        /\ P.ventilated.days = Raw("ventilated_los")
        /\ P.population = Raw("population")
        /\ P.current_hospitalized = Raw("current_hospitalized")
        /\ P.infectious_days = Raw("infectious_days")
        /\ P.n_days = Raw("n_days")
        /\ P.max_y_axis = Raw("max_y_axis_value")

C3_Witness ==
    /\ Built
    /\ Raw("hospitalized_rate") = PyInt(8)
    /\ P.hospitalized = Disposition(PyFloat(8, 100), PyInt(7))
    /\ Raw("market_share") = PyInt(150)

\* C4 as stated: a submission whose number of raw values differs from the
\* number of interactive keys, fewer or more, makes every callback fail and
\* leaves no coerced map.
C4_LengthMismatchFails ==
    Len(input_values) # Len(InteractiveKeys) =>
        /\ pars # Unset => IsExc(pars)
        /\ download_as_pdf_link # Unset => IsExc(download_as_pdf_link)
        /\ inputs_dict = Unset

\* the keys a submission of this length leaves without a value
MissingKeys ==
    {InteractiveKeys[i] : i \in {j \in 1..Len(InteractiveKeys) :
                                   j > Len(input_values)}}

\* what a callback does on too few values: the KeyError of a date or
\* switch key left without a value, or the ValueError of a date met before
ShortFailure(out) ==
    \/ out.t = "KeyError" /\ out.key \in MissingKeys
                          /\ out.key \in KeysOfType("date") \cup KeysOfType("switch")
    \/ out.t = "ValueError"

\* C4 amended: with fewer raw values than interactive keys every callback
\* raises (a KeyError naming a date or switch key left without a value, or
\* the ValueError of a malformed date met before it) and binds no coerced
\* map; with more, the surplus is dropped and each callback returns what
\* it returns for the first values alone.
C4_ShortFailsSurplusIgnored ==
    /\ Len(input_values) < Len(InteractiveKeys) =>
        /\ pars # Unset => ShortFailure(pars)
        /\ download_as_pdf_link # Unset => ShortFailure(download_as_pdf_link)
        /\ inputs_dict = Unset
    /\ Len(input_values) > Len(InteractiveKeys) =>
        LET first == SubSeq(input_values, 1, Len(InteractiveKeys))
        IN  /\ pars # Unset => pars = update_parameters(first)
            /\ download_as_pdf_link # Unset
                 => download_as_pdf_link = get_download_as_pdf_link(first)
            /\ inputs_dict # Unset => inputs_dict = get_formated_values(first)

C4_Witness ==
    /\ Len(input_values) > Len(InteractiveKeys)
    /\ Built
    /\ Returned(download_as_pdf_link)

\* an "=" with no value after it
EmptyParameter ==
    \E i \in 1..Len(Url) : Url[i] = "=" /\ (i = Len(Url) \/ Url[i + 1] = "&")

\* C5 as stated: in the URL returned, every entry whose value is absent or
\* null, an empty date included, is omitted: no parameter is rendered as
\* key= with an empty value.
C5_NoEmptyParameter ==
    Returned(download_as_pdf_link) =>
        /\ ~EmptyParameter
        /\ \A i \in 1..Len(InteractiveKeys) :
             input_values[i] \in EmptyDates
                => \A j \in 1..Len(Url) : Url[j] # InteractiveKeys[i]

\* the query string expected for the values from position i on; `sep` is
\* what precedes the next parameter rendered
RECURSIVE ExpectedQuery(_, _)
ExpectedQuery(i, sep) ==
    IF i > Len(InteractiveKeys) THEN <<>>
    ELSE LET v == ExpectedValue(InteractiveEntries[i].type, input_values[i])
         IN  IF v = PyNone THEN ExpectedQuery(i + 1, sep)
             ELSE sep \o <<InteractiveKeys[i], "=">> \o str(v)
                  \o ExpectedQuery(i + 1, <<"&">>)

\* C5 amended: the URL is the base path, "?", and, in table order and
\* joined by "&", key=value for every interactive entry whose coerced value
\* is not None, the value being the text of the coerced value (a number as
\* submitted, not divided by 100; a switch True or False; a date as
\* YYYY-MM-DD); only None is omitted: an empty string is rendered as key=
\* with an empty value.
C5_OnlyNoneOmitted ==
    Returned(download_as_pdf_link) =>
        Url = <<"/download-as-pdf", "?">> \o ExpectedQuery(1, <<>>)

C5_Witness ==
    /\ Returned(download_as_pdf_link)
    /\ Raw("date_first_hospitalized") = PyStr(<<>>)
    /\ Raw("max_y_axis_value") = PyNone
    /\ EmptyParameter
    /\ \A j \in 1..Len(Url) : Url[j] # "max_y_axis_value"

MalformedKeys ==
    {key \in KeysOfType("date") : Present(key) /\ Raw(key) \in MalformedDates}

FirstMalformedKey ==
    CHOOSE key \in MalformedKeys :
        \A other \in MalformedKeys : KeyPos(key) <= KeyPos(other)

\* the exception carries the key of the field it is about
NamesKey(out, key) == "key" \in DOMAIN out /\ out.key = key

StrptimeFailure(out) ==
    /\ out.t = "ValueError"
    /\ ~NamesKey(out, FirstMalformedKey)
    /\ out.data \in {Raw(FirstMalformedKey).s, <<>>}

DateBefore(a, b) ==
    \/ a.y < b.y
    \/ a.y = b.y /\ a.m < b.m
    \/ a.y = b.y /\ a.m = b.m /\ a.d < b.d

\* the raw value lies outside the bound the table declares for the entry
OutOfBounds(entry, raw) ==
    IF entry.type = "number"
    THEN /\ raw.t = "int"
         /\ \/ raw.i * entry.min.den < entry.min.num
            \/ "max" \in DOMAIN entry /\ raw.i * entry.max.den > entry.max.num
    ELSE IF entry.type = "date"
    THEN /\ raw \in WellFormedDates
         /\ \/ DateBefore(DateOf(raw), entry.min_date_allowed)
            \/ DateBefore(entry.max_date_allowed, DateOf(raw))
    ELSE FALSE

OutOfBoundsKeys ==
    {InteractiveKeys[i] : i \in {j \in 1..Len(InteractiveKeys) :
        j <= Len(input_values) /\ OutOfBounds(InteractiveEntries[j], input_values[j])}}

\* C8 as stated: a submitted value outside the bound of its field makes
\* update_parameters fail instead of building a Parameters object.
C8_OutOfBoundsRejected ==
    (pars # Unset /\ OutOfBoundsKeys # {}) => IsExc(pars)

\* every value can be coerced and divided: enough values, no malformed
\* date, a number in each percent field
Assemblable ==
    /\ Len(input_values) >= Len(InteractiveKeys)
    /\ \A key \in KeysOfType("date") : Raw(key) \notin MalformedDates
    /\ \A key \in {"market_share", "relative_contact_rate", "hospitalized_rate",
                   "icu_rate", "ventilated_rate"} : Raw(key).t = "int"

\* C8 amended: update_parameters checks no bound of the table: whenever the
\* values can be coerced and divided it builds the Parameters object, in
\* bounds or not, and an out-of-bounds population, n_days, market_share or
\* first-hospitalized date is passed to the constructor like any other
\* value (n_days = 29 as 29, just as 30 as 30).
C8_NoBoundCheck ==
    (pars # Unset /\ Assemblable) =>
        /\ Built
        /\ P.n_days = Raw("n_days")
        /\ P.population = Raw("population")
        /\ IsHundredth(P.market_share, Raw("market_share"))
        /\ ~Truthy(Raw("doubling_time"))
             => P.date_first_hospitalized = DateOf(Raw("date_first_hospitalized"))

C8_Witness ==
    /\ Built
    /\ Raw("n_days") = PyInt(29)
    /\ P.n_days = PyInt(29)
    /\ Raw("population") = PyInt(-1)
    /\ P.population = PyInt(-1)
    /\ OutOfBoundsKeys = {"n_days", "population"}

\* C9: for a submission of as many values as there are interactive fields,
\* with well-formed or empty dates, both callbacks get a coerced map from
\* get_formated_values whose keys are exactly the non-header, non-link keys
\* of the table in table order (what get_ordered_input_keys returns and the
\* callbacks are registered on), the i-th value being the coercion of the
\* i-th raw value and a number the raw value itself.
C9_CoercionTotal ==
    /\ get_ordered_input_keys = InteractiveKeys
    /\ [i \in 1..Len(changed_elements) |-> changed_elements[i].k] = InteractiveKeys
    /\ ( /\ fn # "none"
         /\ Len(input_values) = Len(InteractiveKeys)
         /\ \A key \in KeysOfType("date") :
                Raw(key) \in WellFormedDates \cup EmptyDates )
       => /\ inputs_dict # Unset
          /\ Len(inputs_dict.items) = Len(InteractiveKeys)
          /\ \A i \in 1..Len(InteractiveKeys) :
               /\ inputs_dict.items[i].k = InteractiveKeys[i]
               /\ inputs_dict.items[i].v
                    = ExpectedValue(InteractiveEntries[i].type, input_values[i])
               /\ InteractiveEntries[i].type = "number"
                    => inputs_dict.items[i].v = input_values[i]

C9_Witness ==
    /\ fn = "update_parameters"
    /\ Len(input_values) = Len(InteractiveKeys)
    /\ Raw("date_first_hospitalized") = PyStr(<<>>)
    /\ Raw("show_tables") = PyList(<<PyBool(TRUE)>>)
    /\ inputs_dict # Unset
    /\ GetItem(inputs_dict, "date_first_hospitalized") = PyStr(<<>>)
    /\ GetItem(inputs_dict, "current_date") = PyDate(2020, 3, 20)
    /\ GetItem(inputs_dict, "show_tables") = PyBool(TRUE)

IsTableKey(atom) == \E i \in 1..Len(InputsTable) : InputsTable[i].key = atom

TableIndex(key) == CHOOSE i \in 1..Len(InputsTable) : InputsTable[i].key = key

\* the keys of the URL u follow one another as they do in the table
KeysInTableOrder(u) ==
    LET keys == SelectSeq(u, IsTableKey)
    IN  \A i \in 1..(Len(keys) - 1) : TableIndex(keys[i]) < TableIndex(keys[i + 1])

\* the coerced map holds the submission's own values and nothing else
OwnValuesOnly ==
    inputs_dict # Unset =>
        /\ Len(inputs_dict.items) <= Len(input_values)
        /\ \A i \in 1..Len(inputs_dict.items) :
             /\ inputs_dict.items[i].k = InteractiveKeys[i]
             /\ inputs_dict.items[i].v
                  = ExpectedValue(InteractiveEntries[i].type, input_values[i])

\* C10: whatever callbacks run and in whatever order, the table _INPUTS
\* stays as it was built, the coerced map of an invocation holds only that
\* submission's values, the URL lists its parameters in table order, and
\* invoking a callback again on the same raw values returns what it
\* returned before (the same URL, the same Parameters).
C10_StatelessCallbacks ==
    /\ [](/\ _INPUTS = InputsTable
          /\ OwnValuesOnly
          /\ Returned(download_as_pdf_link) => KeysInTableOrder(Url))
    /\ [][input_values' = input_values =>
            /\ download_as_pdf_link # Unset
                 => download_as_pdf_link' = download_as_pdf_link
            /\ pars # Unset => pars' = pars]_vars

C10_Witness ==
    /\ fn = "get_download_as_pdf_link"
    /\ Built
    /\ Returned(download_as_pdf_link)
    /\ Raw("doubling_time") = PyInt(0)
    /\ KeysInTableOrder(Url)
    /\ Len(SelectSeq(Url, IsTableKey)) = Len(InteractiveKeys) - 1

====
